---------------------------- MODULE Spec2Model ----------------------------
(***************************************************************************)
(* CodeStruct AI: the Project Store (MemStorage behind the asynchronous    *)
(* IStorage interface), the HTTP route handlers that use it, the Analysis  *)
(* Dispatcher (invokeAI / analyzeCodebase / generateDocumentation /        *)
(* suggestCodeImprovements) and the web client's suggestion workflow       *)
(* (CodeEditor -> DiffPreview -> PATCH).                                   *)
(*                                                                         *)
(* Every route handler is an async function.  Each `await` of an IStorage  *)
(* call or of a reasoning-service call is a scheduling point: the code     *)
(* from one await to the next runs as one step, and the steps of the       *)
(* handlers in flight interleave freely.  A storage call takes effect at   *)
(* the moment it is called (the MemStorage method bodies are synchronous   *)
(* up to their own first await), and its promise may also reject, which    *)
(* takes the handler to its catch block.                                   *)
(***************************************************************************)
EXTENDS Naturals, Integers, Sequences, FiniteSets, TLC

\* ------------------------------------------------------------------ bounds
\* Route handlers in flight at the same time.
MaxInFlight == 2
\* Projects, files and analyses ever created (randomUUID never repeats).
MaxProjects == 2
MaxFiles == 3
MaxAnalyses == 2
\* The latest time of the clock.
MaxClock == 2
\* The latest creation time of a stored analysis, and how many are stored,
\* where a store is drawn rather than built by requests.
MaxDate == 3
MaxStoredAnalyses == 3
\* Users the store holds at most, the demo user among them.
MaxUsers == 4
\* Files of a scanned tree: beside src at most MaxTail, and in src at most
\* MaxOver more than collectProjectFiles takes.
MaxTail == 2
MaxOver == 1
\* Characters of a file name whose language is asked for.
MaxNameLen == 4
\* Characters a content has at most beyond what the prompt takes of it.
MaxExcess == 1
\* Files in one multipart upload.
\* The days one tick of the clock stands for where a trial's end is compared.
TickDays == 30
\* The requests of a run of the extension's endpoints.
MaxExtensionRequests == 3
MaxBatch == 2
\* Requests the server accepts in one run.
MaxRequests == 4
\* Requests in one run of the suggestion workflow.
MaxSuggestRequests == 5

Slots == 1..MaxInFlight
ProjectIds == 1..MaxProjects
FileIds == 1..MaxFiles
AnalysisIds == 1..MaxAnalyses

\* A value that may be undefined is a sequence of at most one element.
Undefined == <<>>
Some(x) == <<x>>
\* null, where a string or a date may stand.
Null == "null"

\* ------------------------------------------------------- language detection
\* Strings that the code takes apart are sequences of one-character strings.
LowerOf ==
    [c \in {"A", "P", "Y", "T", "S"} |->
        CASE c = "A" -> "a" [] c = "P" -> "p" [] c = "Y" -> "y"
          [] c = "T" -> "t" [] c = "S" -> "s"]

toLowerCase(str) ==
    [k \in 1..Len(str) |-> IF str[k] \in DOMAIN LowerOf THEN LowerOf[str[k]] ELSE str[k]]

\* Index of the last occurrence of character c in str, 0 when there is none.
lastIndexOf(str, c) ==
    LET hits == {k \in 1..Len(str) : str[k] = c}
    IN  IF hits = {} THEN 0 ELSE CHOOSE k \in hits : \A j \in hits : j <= k

\* path.basename without a suffix: what follows the last '/'.
basename(p) ==
    SubSeq(p, lastIndexOf(p, "/") + 1, Len(p))

\* path.extname: from the last '.' of the base name to its end; empty when
\* there is no '.', or when the only '.' is the base name's first character.
extname(p) ==
    LET b == basename(p)
        d == lastIndexOf(b, ".")
    IN  IF d <= 1 \/ b = <<".", ".">> THEN <<>> ELSE SubSeq(b, d, Len(b))

languageMap ==
    (<<".", "j", "s">> :> "javascript") @@ (<<".", "j", "s", "x">> :> "javascript") @@
    (<<".", "t", "s">> :> "typescript") @@ (<<".", "t", "s", "x">> :> "typescript") @@
    (<<".", "p", "y">> :> "python") @@ (<<".", "j", "a", "v", "a">> :> "java") @@
    (<<".", "c", "p", "p">> :> "cpp") @@ (<<".", "c">> :> "c") @@
    (<<".", "c", "s">> :> "csharp") @@ (<<".", "g", "o">> :> "go") @@
    (<<".", "p", "h", "p">> :> "php") @@ (<<".", "r", "b">> :> "ruby") @@
    (<<".", "r", "s">> :> "rust") @@ (<<".", "k", "t">> :> "kotlin") @@
    (<<".", "s", "w", "i", "f", "t">> :> "swift") @@ (<<".", "h", "t", "m", "l">> :> "html") @@
    (<<".", "c", "s", "s">> :> "css") @@ (<<".", "s", "c", "s", "s">> :> "scss") @@
    (<<".", "s", "a", "s", "s">> :> "sass") @@ (<<".", "j", "s", "o", "n">> :> "json") @@
    (<<".", "x", "m", "l">> :> "xml") @@ (<<".", "y", "m", "l">> :> "yaml") @@
    (<<".", "y", "a", "m", "l">> :> "yaml")

detectLanguage(filename) ==
    LET ext == toLowerCase(extname(filename))
    IN  IF ext \in DOMAIN languageMap THEN languageMap[ext] ELSE "text"

\* -------------------------------------- the extension: collectProjectFiles
maxFiles == 100

supportedExtensions ==
    { <<".", "j", "s">>, <<".", "t", "s">>, <<".", "j", "s", "x">>, <<".", "t", "s", "x">>,
      <<".", "p", "y">>, <<".", "j", "a", "v", "a">>, <<".", "c", "p", "p">>, <<".", "c">>,
      <<".", "c", "s">>, <<".", "g", "o">>, <<".", "p", "h", "p">>, <<".", "r", "b">>,
      <<".", "r", "s">> }

extensionLanguageMap ==
    (<<".", "j", "s">> :> "javascript") @@ (<<".", "j", "s", "x">> :> "javascript") @@
    (<<".", "t", "s">> :> "typescript") @@ (<<".", "t", "s", "x">> :> "typescript") @@
    (<<".", "p", "y">> :> "python") @@ (<<".", "j", "a", "v", "a">> :> "java") @@
    (<<".", "c", "p", "p">> :> "cpp") @@ (<<".", "c">> :> "c") @@
    (<<".", "c", "s">> :> "csharp") @@ (<<".", "g", "o">> :> "go") @@
    (<<".", "p", "h", "p">> :> "php") @@ (<<".", "r", "b">> :> "ruby") @@
    (<<".", "r", "s">> :> "rust")

getLanguageFromExtension(ext) ==
    IF ext \in DOMAIN extensionLanguageMap THEN extensionLanguageMap[ext] ELSE "text"

\* String.prototype.includes
includes(str, sub) ==
    \E k \in 1..(Len(str) - Len(sub) + 1) : SubSeq(str, k, k + Len(sub) - 1) = sub

\* relativePath names node_modules, .git, dist or build.
ignored(relativePath) ==
    \/ includes(relativePath, <<"n", "o", "d", "e", "_", "m", "o", "d", "u", "l", "e", "s">>)
    \/ includes(relativePath, <<".", "g", "i", "t">>)
    \/ includes(relativePath, <<"d", "i", "s", "t">>)
    \/ includes(relativePath, <<"b", "u", "i", "l", "d">>)

\* path.relative(projectPath, path.join(dirPath, name)), dirPath being given
\* relative to projectPath.
relative(dirPath, name) ==
    IF dirPath = <<>> THEN name ELSE dirPath \o <<"/">> \o name

capReached_never(files) == FALSE

\* files.length >= maxFiles
capReached(files) ==
    Len(files) >= maxFiles

\* A directory tree: for each directory (1 is the project's) what readdir
\* lists, in its order.  Directory 1 holds src (directory 2), build (3), a
\* README.md, a rebuild.js, `tail` Python files and lib (4); src holds `n` TypeScript files,
\* the first of which cannot be read when `locked`; readdir of lib fails when
\* `denied`.  The number in a file's name stands as one element of the name.
SourceFile(stem, k, ext, readable) ==
    [name |-> <<stem, ToString(k)>> \o ext, isDirectory |-> FALSE, dir |-> 0,
     readable |-> readable, content |-> <<"x">>]
Directory(name, dir) ==
    [name |-> name, isDirectory |-> TRUE, dir |-> dir, readable |-> TRUE,
     content |-> <<>>]
Tree(n, tail, locked, denied) ==
    [dirs |->
        (1 :> (<<Directory(<<"s", "r", "c">>, 2), Directory(<<"b", "u", "i", "l", "d">>, 3),
                [name |-> <<"R", "E", "A", "D", "M", "E", ".", "m", "d">>,
                 isDirectory |-> FALSE, dir |-> 0, readable |-> TRUE, content |-> <<"x">>],
                [name |-> <<"r", "e", "b", "u", "i", "l", "d", ".", "j", "s">>,
                 isDirectory |-> FALSE, dir |-> 0, readable |-> TRUE, content |-> <<"x">>]>>
               \o [k \in 1..tail |-> SourceFile("g", k, <<".", "p", "y">>, TRUE)]
               \o <<Directory(<<"l", "i", "b">>, 4)>>)) @@
        (2 :> [k \in 1..n |-> SourceFile("f", k, <<".", "t", "s">>, ~(locked /\ k = 1))]) @@
        (3 :> <<SourceFile("x", 1, <<".", "j", "s">>, TRUE)>>) @@
        (4 :> <<SourceFile("l", 1, <<".", "g", "o">>, TRUE)>>),
     denied |-> IF denied THEN {4} ELSE {}]

Trees ==
    {Tree(n, tail, locked, denied) :
        n \in {0, 1} \cup (maxFiles - MaxTail)..(maxFiles + MaxOver),
        tail \in 0..MaxTail, locked \in BOOLEAN, denied \in BOOLEAN}

\* ------------------------------------------------------------- request data
\* A text is the sequence of its lines: content.split('\n').length is Len
\* (the empty string is the one empty line <<"">>); <<>> is no text at all.
\* The files a multipart upload can carry (originalname, buffer, size).
UploadFile ==
    { [originalname |-> <<"a", ".", "p", "y">>, buffer |-> <<"print(1)">>, size |-> 8],
      [originalname |-> <<"b", ".", "T", "S">>, buffer |-> <<"let x=1;", "x++;">>,
       size |-> 13] }

RECURSIVE SeqsUpTo(_, _)
SeqsUpTo(S, n) ==
    IF n = 0 THEN {<<>>}
    ELSE LET shorter == SeqsUpTo(S, n - 1)
         IN  shorter \cup {Append(q, x) : q \in {r \in shorter : Len(r) = n - 1}, x \in S}

\* req.files of an upload: up to MaxBatch files, possibly none.
Batches == SeqsUpTo(UploadFile, MaxBatch)

\* The content field of a PATCH body: a text, or absent.
\* Bodies of POST /api/auth/register that the schema accepts.
InsertUser ==
    [username : {<<"demo">>, <<"u">>}, email : {<<"demo@codestruct.ai">>, <<"u@x.io">>}]

PatchContent == {<<"patched">>, Undefined}

\* What the requests of a run are drawn from.  StoreScope: the store and its
\* routes, two projects.  AnalyzeScope: one project and its analysis.
\* SuggestScope: one project and the client's suggestion workflow.
StoreScope ==
    [requests |-> MaxRequests, projects |-> ProjectIds, batches |-> Batches,
     patches |-> PatchContent]

AnalyzeScope ==
    [requests |-> MaxRequests, projects |-> {1},
     batches |-> {b \in Batches : Len(b) > 0}, patches |-> PatchContent]

SuggestScope ==
    [requests |-> MaxSuggestRequests, projects |-> {1},
     batches |-> {b \in Batches : Len(b) > 0 /\ b[1].size = 8},
     patches |-> PatchContent]

\* ---------------------------------------------------------------- the store
\* Each operation is given the map it works on and returns the map after it.
\* A stored object that a lookup returns is a reference: its identifier.

getProject_any(projs, id) == Some(id)

getProject(projs, id) ==
    IF id \in DOMAIN projs THEN Some(id) ELSE Undefined

createProject(projs, id, userId, insertProject) ==
    projs @@ (id :> [name |-> insertProject.name, id |-> id, userId |-> userId,
                     fileCount |-> 0, languageCount |-> 0, lastScanAt |-> Null,
                     linesProcessed |-> 0])

\* { ...record, ...updates }
Spread(record, updates) ==
    [k \in DOMAIN record \cup DOMAIN updates |->
        IF k \in DOMAIN updates THEN updates[k] ELSE record[k]]

updateProject_none(projs, id, updates) ==
    projs

updateProject(projs, id, updates) ==
    IF id \notin DOMAIN projs THEN projs
    ELSE [projs EXCEPT ![id] = Spread(@, updates)]

getProjectFiles(files, projectId) ==
    {k \in DOMAIN files : files[k].projectId = projectId}

getProjectFile(files, id) ==
    IF id \in DOMAIN files THEN Some(id) ELSE Undefined

createProjectFile(files, id, projectId, insertFile) ==
    files @@ (id :> [id |-> id, projectId |-> projectId, path |-> insertFile.path,
                     content |-> insertFile.content, language |-> insertFile.language,
                     size |-> insertFile.size])

updateProjectFile_upsert(files, id, updates) ==
    [store |-> IF id \in DOMAIN files
               THEN [files EXCEPT ![id] = Spread(@, updates)]
               ELSE files @@ (id :> [id |-> id, projectId |-> 0, path |-> <<>>,
                                     content |-> updates.content, language |-> Null,
                                     size |-> 0]),
     ret |-> getProjectFile(files, id)]

updateProjectFile_path(files, id, updates) ==
    IF id \notin DOMAIN files THEN [store |-> files, ret |-> Undefined]
    ELSE [store |-> [files EXCEPT ![id] = Spread(Spread(@, updates), [path |-> <<>>])],
          ret |-> Some(id)]

updateProjectFile_keep(files, id, updates) ==
    [store |-> files, ret |-> getProjectFile(files, id)]

\* Returns the map after the call and what the call returns: the updated
\* file, or undefined when the map has no file `id`.
updateProjectFile(files, id, updates) ==
    IF id \notin DOMAIN files THEN [store |-> files, ret |-> Undefined]
    ELSE [store |-> [files EXCEPT ![id] = Spread(@, updates)], ret |-> Some(id)]

deleteProjectFiles_none(files, projectId) == files

deleteProjectFiles(files, projectId) ==
    [k \in {j \in DOMAIN files : files[j].projectId # projectId} |-> files[k]]

createAnalysis_replace(analyses, id, projectId, analysisData, now) ==
    [k \in {j \in DOMAIN analyses : analyses[j].projectId # projectId} |-> analyses[k]]
        @@ (id :> Spread(analysisData, [id |-> id, projectId |-> projectId,
                                        createdAt |-> now]))

createAnalysis(analyses, id, projectId, analysisData, now) ==
    analyses @@ (id :> Spread(analysisData, [id |-> id, projectId |-> projectId,
                                             createdAt |-> now]))

\* The part of deleteProject that follows its await of deleteProjectFiles.
\* Array.prototype.sort with (a, b) => time(b) - time(a): a stable sort, the
\* later creation time first.  `sorted` lists identifiers of `analyses`.
sort(analyses, seq) ==
    LET insert(sorted, x) ==
            LET k == Cardinality({i \in 1..Len(sorted) :
                        analyses[sorted[i]].createdAt >= analyses[x].createdAt})
            IN  SubSeq(sorted, 1, k) \o <<x>> \o SubSeq(sorted, k + 1, Len(sorted))
        RECURSIVE from(_, _)
        from(sorted, i) ==
            IF i > Len(seq) THEN sorted ELSE from(insert(sorted, seq[i]), i + 1)
    IN  from(<<>>, 1)

\* The elements of a set of numbers in increasing order (a Map lists its
\* values in insertion order, and identifiers are handed out in order).
RECURSIVE Ordered(_)
Ordered(S) ==
    IF S = {} THEN <<>>
    ELSE LET least == CHOOSE x \in S : \A y \in S : x <= y
         IN  <<least>> \o Ordered(S \ {least})

getLatestAnalysis_first(analyses, projectId) ==
    LET mine == Ordered({a \in DOMAIN analyses : analyses[a].projectId = projectId})
    IN  IF mine = <<>> THEN Undefined ELSE Some(mine[1])

\* The identifier of the analysis returned, Undefined when there is none.
getLatestAnalysis(analyses, projectId) ==
    LET mine == Ordered({a \in DOMAIN analyses : analyses[a].projectId = projectId})
        sorted == sort(analyses, mine)
    IN  IF sorted = <<>> THEN Undefined ELSE Some(sorted[1])

deleteProjectAnalyses(analyses, id) ==
    [k \in {j \in DOMAIN analyses : analyses[j].projectId # id} |-> analyses[k]]

getUserByEmail(us, email) ==
    LET found == {u \in DOMAIN us : us[u].email = email}
    IN  IF found = {} THEN Undefined
        ELSE Some(CHOOSE u \in found : \A v \in found : u <= v)

\* trialEndsAt is 30 days after `now`.
createUser(us, id, insertUser, now) ==
    us @@ (id :> Spread(insertUser,
                        [id |-> id, subscriptionTier |-> "trial",
                         trialEndsAt |-> [after |-> now, days |-> 30],
                         createdAt |-> now]))

getUser(us, id) ==
    IF id \in DOMAIN us THEN Some(us[id]) ELSE Undefined

updateUser(us, id, updates) ==
    IF id \in DOMAIN us THEN [us EXCEPT ![id] = Spread(@, updates)] ELSE us

\* Date.getTime of a trialEndsAt, in ticks of the clock.
getTime(date) == date.after + date.days \div TickDays

\* user.trialEndsAt ? now > user.trialEndsAt : true
trialExpired(user, now) ==
    IF "trialEndsAt" \in DOMAIN user THEN now > getTime(user.trialEndsAt) ELSE TRUE

deleteProjectEntry_keep(projs, id) == projs

deleteProjectEntry(projs, id) ==
    [k \in DOMAIN projs \ {id} |-> projs[k]]

\* ----------------------------------------------------- analysis dispatcher
\* Texts the reasoning service can return: the structure asked for, a JSON
\* object without it, and prose.
WellFormed ==
    <<"{\"detectedLanguages\":{\"python\":100},\"architecture\":\"script\",\"issues\":[],\"suggestions\":[]}">>
EmptyObject == <<"{}">>
Prose == <<"Here is the analysis:", "the code looks fine">>

ReasoningTexts == {WellFormed, EmptyObject, Prose}
\* For a suggestion the text is opaque, and one stands for all.
SuggestionTexts == {Prose}

\* JSON.parse on these texts: the value, or undefined where it throws.
JSONparse(text) ==
    CASE text = WellFormed ->
             Some([detectedLanguages |-> [python |-> 100], architecture |-> "script",
                   issues |-> <<>>, suggestions |-> <<>>])
      [] text = EmptyObject -> Some(<<>>)
      [] OTHER -> Undefined

modelsToTry == <<"amazon.nova-lite-v1:0">>

\* The backends invokeAI calls, in its order: the Bedrock models, then OpenAI
\* when the key is set.
Backends(key) ==
    modelsToTry \o (IF key THEN <<"openai">> ELSE <<>>)

\* invokeAI after the backend it awaits has answered with `outcome` (a text,
\* or undefined for an error): it returns the text, calls the next backend,
\* or throws when there is none left.
invokeAI_once(key, tried, outcome) ==
    [done |-> TRUE, tried |-> tried, text |-> outcome]

invokeAI(key, tried, outcome) ==
    IF outcome # Undefined
    THEN [done |-> TRUE, tried |-> tried, text |-> outcome]
    ELSE IF Len(tried) < Len(Backends(key))
         THEN [done |-> FALSE, tried |-> Append(tried, Backends(key)[Len(tried) + 1]),
               text |-> Undefined]
         ELSE [done |-> TRUE, tried |-> tried, text |-> Undefined]

\* analyzeCodebase, inner catch: the result when JSON.parse throws.
parseFallback ==
    [detectedLanguages |-> [unknown |-> 100],
     architecture |-> "Unable to analyze - parsing error",
     issues |-> <<>>, suggestions |-> <<>>]

\* analyzeCodebase, outer catch: the result when invokeAI, or building the
\* prompt, throws.
demoAnalysis(files) ==
    LET file == IF Len(files) > 0 THEN files[1].path ELSE <<"uploaded-file">>
    IN  [detectedLanguages |-> [TypeScript |-> 85, JavaScript |-> 15],
         architecture |-> "Express.js REST API with TypeScript",
         issues |-> << [type |-> "Code Quality", severity |-> "medium", file |-> file],
                       [type |-> "Security", severity |-> "low", file |-> file] >>,
         suggestions |-> << [type |-> "Performance", title |-> "Add request caching",
                             file |-> file],
                            [type |-> "Maintainability",
                             title |-> "Error handling standardization", file |-> file] >>]

substring_whole(str, start, end) == str

\* String.prototype.substring(start, end) for 0 <= start <= end: the
\* characters from index start up to index end, or to the end of the string.
\* Where the prompt is built a content is the sequence of its characters.
substring(str, start, end) ==
    SubSeq(str, start + 1, IF end < Len(str) THEN end ELSE Len(str))

\* What each file gives the prompt of analyzeCodebase.
sampleLength == 2000

\* The prompt of analyzeCodebase: filesList and sampleContent.
analyzePrompt(files) ==
    [filesList |-> [k \in 1..Len(files) |->
                        [path |-> files[k].path, language |-> files[k].language]],
     sampleContent |-> [k \in 1..Len(files) |->
                        [path |-> files[k].path,
                         content |-> substring(files[k].content, 0, sampleLength)]]]

\* f.content.substring throws on a file whose content is undefined.
promptThrows(files) ==
    \E k \in 1..Len(files) : files[k].content = Undefined

\* analyzeCodebase once invokeAI has returned `text`, or thrown (undefined).
analyzeCodebase(files, text) ==
    IF text = Undefined THEN demoAnalysis(files)
    ELSE IF JSONparse(text[1]) = Undefined THEN parseFallback
         ELSE JSONparse(text[1])[1]

\* -------------------------------------------------------------------- state
VARIABLES
    projects,          \* MemStorage.projects: id -> Project
    projectFiles,      \* MemStorage.projectFiles: id -> ProjectFile
    analysisResults,   \* MemStorage.analysisResults: id -> AnalysisResult
    nextProjectId,     \* the identifiers randomUUID has not yet handed out
    nextFileId,
    nextAnalysisId,
    clock,             \* the time new Date() last returned
    users,             \* MemStorage.users: user id -> record
    h,                 \* the route handlers in flight, one per slot
    served,            \* the number of requests accepted so far
    OPENAI_API_KEY,    \* whether process.env.OPENAI_API_KEY is set
    extension,         \* the editor extension: what its running command holds
    selectedFile,      \* home.tsx: the file selected in the editor, 0 for null
    diffData           \* home.tsx: the suggestion on display, if any

vars == <<projects, projectFiles, analysisResults, nextProjectId, nextFileId,
          nextAnalysisId, clock, users, h, served, OPENAI_API_KEY, extension,
          selectedFile, diffData>>

store == <<projects, projectFiles, analysisResults, nextProjectId, nextFileId,
           nextAnalysisId, clock, users>>
client == <<selectedFile, diffData>>

\* The demo user is the first user the store creates.
DemoUser == 1
DemoInsertUser == [username |-> <<"demo">>, email |-> <<"demo@codestruct.ai">>]
\* The users once registerRoutes has looked for the demo user in the new
\* store and created it.
DemoUsers ==
    IF getUserByEmail(<<>>, DemoInsertUser.email) = Undefined
    THEN createUser(<<>>, DemoUser, DemoInsertUser, 1)
    ELSE <<>>

\* A handler: the route, where it stands, and its local variables.  An idle
\* slot keeps the status of the last response sent from it.  Two fields are
\* history: `previous`, the files the project stored when the upload arrived,
\* and `others`, the kinds of request whose storage calls on the same project
\* ran between the upload's arrival and its response.
Idle ==
    [kind |-> "none", pc |-> "idle", id |-> 0, files |-> <<>>, content |-> Undefined,
     uploadedFiles |-> <<>>, totalLines |-> 0, ret |-> Undefined, tried |-> <<>>,
     response |-> Undefined, result |-> Undefined, previous |-> {}, others |-> {},
     status |-> 0, prompt |-> Undefined, token |-> Undefined]

\* No command of the extension is running.
NoCommand == [pc |-> "none"]

\* A new request is taken by the first slot that holds no handler.
Free(s, scope) ==
    /\ h[s].pc = "idle"
    /\ \A t \in Slots : t < s => h[t].pc # "idle"
    /\ served < scope.requests

\* The uploads to project `id`, other than slot s, that have not yet answered.
UploadsUnderWay(s, id) ==
    {t \in Slots \ {s} : h[t].kind = "upload" /\ h[t].id = id}

\* Slot s goes on as `handler`; its step made a storage call of a request of
\* kind `kind` on project `id` (0: on no project).
Handle(s, handler, kind, id) ==
    /\ h' = [t \in Slots |->
                IF t = s THEN handler
                ELSE IF t \in UploadsUnderWay(s, id)
                     THEN [h[t] EXCEPT !.others = @ \cup {kind}]
                     ELSE h[t]]
    /\ served' = IF h[s].pc = "idle" THEN served + 1 ELSE served

\* A step of a handler whose request no command of the extension awaits.
Step(s, handler, kind, id) ==
    /\ Handle(s, handler, kind, id)
    /\ UNCHANGED <<OPENAI_API_KEY, extension>>

\* The handler goes on to its next await without touching a project's files.
Goto(s, handler) == Step(s, handler, "none", 0)

\* res.status(code).json(...): the handler is over.
Respond(s, code) == Goto(s, [Idle EXCEPT !.status = code])

Init ==
    /\ projects = <<>>
    /\ projectFiles = <<>>
    /\ analysisResults = <<>>
    /\ nextProjectId = 1
    /\ nextFileId = 1
    /\ nextAnalysisId = 1
    /\ clock = 1
    /\ users = DemoUsers
    /\ h = [s \in Slots |-> Idle]
    /\ served = 0
    /\ OPENAI_API_KEY \in BOOLEAN
    /\ extension = NoCommand
    /\ selectedFile = 0
    /\ diffData = Undefined

\* ------------------------------------------------------ POST /api/projects
\* insertProjectSchema.parse(req.body) throws on a body without a name: 400.
CreateProjectRoute(s, scope) ==
    /\ Free(s, scope)
    /\ \E valid \in BOOLEAN :
        IF ~valid
        THEN /\ Respond(s, 400)
             /\ UNCHANGED <<projects, nextProjectId>>
        ELSE /\ nextProjectId \in scope.projects
             /\ projects' = createProject(projects, nextProjectId, DemoUser, [name |-> "p"])
             /\ nextProjectId' = nextProjectId + 1
             /\ Goto(s, [Idle EXCEPT !.kind = "create", !.pc = "created",
                                     !.id = nextProjectId])
    /\ UNCHANGED <<projectFiles, analysisResults, nextFileId, nextAnalysisId, clock, users>>
    /\ UNCHANGED client

CreateProjectRespond(s) ==
    /\ h[s].pc = "created"
    /\ Respond(s, 200)
    /\ UNCHANGED <<projects, projectFiles, analysisResults, nextProjectId, nextFileId,
                   nextAnalysisId, clock, users>>
    /\ UNCHANGED client

\* ----------------------------------------------- DELETE /api/projects/:id
\* storage.deleteProject(id) runs up to its await of deleteProjectFiles(id).
DeleteProjectFilesStep(s, scope) ==
    /\ Free(s, scope)
    /\ \E id \in scope.projects :
        /\ projectFiles' = deleteProjectFiles(projectFiles, id)
        /\ Step(s, [Idle EXCEPT !.kind = "delete", !.pc = "del_files", !.id = id],
                "delete", id)
    /\ UNCHANGED <<projects, analysisResults, nextProjectId, nextFileId, nextAnalysisId, clock, users>>
    /\ UNCHANGED client

\* The rest of deleteProject: the analyses, then projects.delete(id).
DeleteProjectStep(s) ==
    /\ h[s].pc = "del_files"
    /\ analysisResults' = deleteProjectAnalyses(analysisResults, h[s].id)
    /\ projects' = deleteProjectEntry(projects, h[s].id)
    /\ Step(s, [h[s] EXCEPT !.pc = "deleted", !.ret = Some(h[s].id \in DOMAIN projects)],
            "delete", h[s].id)
    /\ UNCHANGED <<projectFiles, nextProjectId, nextFileId, nextAnalysisId, clock, users>>
    /\ UNCHANGED client

DeleteProjectRespond(s) ==
    /\ h[s].pc = "deleted"
    /\ Respond(s, IF h[s].ret[1] THEN 200 ELSE 404)
    /\ UNCHANGED <<projects, projectFiles, analysisResults, nextProjectId, nextFileId,
                   nextAnalysisId, clock, users>>
    /\ UNCHANGED client

\* ------------------------------------------ POST /api/projects/:id/upload
UploadStart(s, scope) ==
    /\ Free(s, scope)
    /\ \E id \in scope.projects, files \in scope.batches :
        IF Len(files) = 0
        THEN Respond(s, 400)
        ELSE Goto(s, [Idle EXCEPT !.kind = "upload", !.pc = "up_project", !.id = id,
                                  !.files = files, !.ret = getProject(projects, id),
                                  !.previous = getProjectFiles(projectFiles, id)])
    /\ UNCHANGED <<projects, projectFiles, analysisResults, nextProjectId, nextFileId,
                   nextAnalysisId, clock, users>>
    /\ UNCHANGED client

\* if (!project) 404; else storage.deleteProjectFiles(projectId).
UploadClear(s) ==
    /\ h[s].pc = "up_project"
    /\ IF h[s].ret = Undefined
       THEN /\ Respond(s, 404)
            /\ UNCHANGED projectFiles
       ELSE /\ projectFiles' = deleteProjectFiles(projectFiles, h[s].id)
            /\ Step(s, [h[s] EXCEPT !.pc = "up_files", !.ret = Undefined],
                    "upload", h[s].id)
    /\ UNCHANGED <<projects, analysisResults, nextProjectId, nextFileId, nextAnalysisId, clock, users>>
    /\ UNCHANGED client

\* One iteration of the loop over req.files: storage.createProjectFile.
UploadCreateFile(s) ==
    /\ h[s].pc = "up_files"
    /\ Len(h[s].uploadedFiles) < Len(h[s].files)
    /\ nextFileId <= MaxFiles
    /\ LET file == h[s].files[Len(h[s].uploadedFiles) + 1]
           content == file.buffer
           language == detectLanguage(file.originalname)
       IN  /\ projectFiles' = createProjectFile(projectFiles, nextFileId, h[s].id,
                                  [path |-> file.originalname, content |-> content,
                                   language |-> language, size |-> file.size])
           /\ Step(s, [h[s] EXCEPT !.uploadedFiles =
                                       Append(@, [id |-> nextFileId, language |-> language]),
                                   !.totalLines = @ + Len(content)],
                   "upload", h[s].id)
    /\ nextFileId' = nextFileId + 1
    /\ UNCHANGED <<projects, analysisResults, nextProjectId, nextAnalysisId, clock, users>>
    /\ UNCHANGED client

\* new Set(uploadedFiles.map(f => f.language).filter(Boolean))
languageSet(uploadedFiles) ==
    {uploadedFiles[k].language : k \in 1..Len(uploadedFiles)} \ {Null, ""}

\* After the loop: storage.updateProject(projectId, {fileCount, ...}).
UploadUpdateProject(s) ==
    /\ h[s].pc = "up_files"
    /\ Len(h[s].uploadedFiles) = Len(h[s].files)
    /\ projects' = updateProject(projects, h[s].id,
                       [fileCount |-> Len(h[s].uploadedFiles),
                        languageCount |-> Cardinality(languageSet(h[s].uploadedFiles)),
                        linesProcessed |-> h[s].totalLines,
                        lastScanAt |-> "now"])
    /\ Step(s, [h[s] EXCEPT !.pc = "up_updated"], "upload", h[s].id)
    /\ UNCHANGED <<projectFiles, analysisResults, nextProjectId, nextFileId, nextAnalysisId, clock, users>>
    /\ UNCHANGED client

UploadRespond(s) ==
    /\ h[s].pc = "up_updated"
    /\ Respond(s, 200)
    /\ UNCHANGED <<projects, projectFiles, analysisResults, nextProjectId, nextFileId,
                   nextAnalysisId, clock, users>>
    /\ UNCHANGED client

\* The promise of the storage call the upload handler is about to make
\* rejects: the call has no effect and the catch block answers 500.
UploadStorageFailure(s) ==
    /\ \/ h[s].pc = "up_project" /\ h[s].ret # Undefined
       \/ h[s].pc = "up_files"
    /\ Respond(s, 500)
    /\ UNCHANGED <<projects, projectFiles, analysisResults, nextProjectId, nextFileId,
                   nextAnalysisId, clock, users>>
    /\ UNCHANGED client

\* -------------------------------------------------- PATCH /api/files/:id
PatchFile(s, scope) ==
    /\ Free(s, scope)
    /\ \E id \in FileIds, content \in scope.patches :
        LET file == updateProjectFile(projectFiles, id, [content |-> content])
        IN  /\ projectFiles' = file.store
            /\ Goto(s, [Idle EXCEPT !.kind = "patch", !.pc = "patched", !.id = id,
                                    !.content = content, !.ret = file.ret])
    /\ UNCHANGED <<projects, analysisResults, nextProjectId, nextFileId, nextAnalysisId, clock, users>>
    /\ UNCHANGED client

\* A PATCH that DiffPreview sent runs onApplyChanges when it succeeds.
PatchRespond(s) ==
    /\ h[s].pc = "patched"
    /\ Respond(s, IF h[s].ret = Undefined THEN 404 ELSE 200)
    /\ diffData' = IF h[s].kind = "apply" /\ h[s].ret # Undefined THEN Undefined
                   ELSE diffData
    /\ UNCHANGED <<store, selectedFile>>

Next ==
    \E s \in Slots :
        \/ CreateProjectRoute(s, StoreScope)
        \/ CreateProjectRespond(s)
        \/ DeleteProjectFilesStep(s, StoreScope)
        \/ DeleteProjectStep(s)
        \/ DeleteProjectRespond(s)
        \/ UploadStart(s, StoreScope)
        \/ UploadClear(s)
        \/ UploadCreateFile(s)
        \/ UploadUpdateProject(s)
        \/ UploadRespond(s)
        \/ UploadStorageFailure(s)
        \/ PatchFile(s, StoreScope)
        \/ PatchRespond(s)

Spec == Init /\ [][Next]_vars

\* ------------------------------------------ POST /api/projects/:id/analyze
\* What new Date() can return: the time it last returned, or a later one.
Dates == {t \in 1..MaxClock : clock <= t /\ t <= clock + 1}

\* What a handler keeps of a stored file it has read.
Snapshot(files, id) ==
    [id |-> id, path |-> files[id].path, content |-> files[id].content,
     language |-> files[id].language]

AnalyzeStart(s, scope) ==
    /\ Free(s, scope)
    /\ \E id \in scope.projects :
        Goto(s, [Idle EXCEPT !.kind = "analyze", !.pc = "an_project", !.id = id,
                             !.ret = getProject(projects, id)])
    /\ UNCHANGED <<store, client>>

\* if (!project) 404; else storage.getProjectFiles(projectId).
AnalyzeGetFiles(s) ==
    /\ h[s].pc = "an_project"
    /\ IF h[s].ret = Undefined
       THEN Respond(s, 404)
       ELSE LET ids == Ordered(getProjectFiles(projectFiles, h[s].id))
            IN  Goto(s, [h[s] EXCEPT !.pc = "an_files",
                             !.files = [k \in 1..Len(ids) |-> Snapshot(projectFiles, ids[k])]])
    /\ UNCHANGED <<store, client>>

\* 400 without files; else analyzeCodebase(fileData) up to its first await.
AnalyzeDispatch(s) ==
    /\ h[s].pc = "an_files"
    /\ IF Len(h[s].files) = 0
       THEN Respond(s, 400)
       ELSE IF promptThrows(h[s].files)
            THEN Goto(s, [h[s] EXCEPT !.pc = "an_result",
                              !.result = Some(analyzeCodebase(h[s].files, Undefined))])
            ELSE Goto(s, [h[s] EXCEPT !.pc = "an_ai",
                              !.prompt = Some(analyzePrompt(h[s].files)),
                              !.tried = <<Backends(OPENAI_API_KEY)[1]>>])
    /\ UNCHANGED <<store, client>>

\* The backend that invokeAI awaits answers; when invokeAI is over,
\* analyzeCodebase returns and the route calls storage.createAnalysis.
AnalyzeBackendAnswers(s) ==
    /\ h[s].pc = "an_ai"
    /\ \E outcome \in {Undefined} \cup {Some(t) : t \in ReasoningTexts}, now \in Dates :
        LET ai == invokeAI(OPENAI_API_KEY, h[s].tried, outcome)
            analysisResult == analyzeCodebase(h[s].files, ai.text)
        IN  IF ~ai.done
            THEN /\ Goto(s, [h[s] EXCEPT !.tried = ai.tried])
                 /\ UNCHANGED <<analysisResults, nextAnalysisId, clock, users>>
            ELSE /\ nextAnalysisId <= MaxAnalyses
                 /\ analysisResults' = createAnalysis(analysisResults, nextAnalysisId,
                                                      h[s].id, analysisResult, now)
                 /\ clock' = now
                 /\ nextAnalysisId' = nextAnalysisId + 1
                 /\ Goto(s, [h[s] EXCEPT !.pc = "an_stored", !.response = ai.text,
                                         !.result = Some(analysisResult),
                                         !.ret = Some(nextAnalysisId)])
    /\ UNCHANGED <<projects, projectFiles, nextProjectId, nextFileId, users, client>>

\* storage.createAnalysis after analyzeCodebase returned without calling a
\* backend.
AnalyzeStore(s) ==
    /\ h[s].pc = "an_result"
    /\ nextAnalysisId <= MaxAnalyses
    /\ \E now \in Dates :
        /\ analysisResults' = createAnalysis(analysisResults, nextAnalysisId, h[s].id,
                                             h[s].result[1], now)
        /\ clock' = now
    /\ nextAnalysisId' = nextAnalysisId + 1
    /\ Goto(s, [h[s] EXCEPT !.pc = "an_stored", !.ret = Some(nextAnalysisId)])
    /\ UNCHANGED <<projects, projectFiles, nextProjectId, nextFileId, users, client>>

AnalyzeRespond(s) ==
    /\ h[s].pc = "an_stored"
    /\ Respond(s, 200)
    /\ UNCHANGED <<store, client>>

\* ------------------------------------------- GET /api/projects/:id/analysis
GetAnalysisRoute(s, scope) ==
    /\ Free(s, scope)
    /\ \E id \in scope.projects :
        LET analysis == getLatestAnalysis(analysisResults, id)
        IN  Goto(s, [Idle EXCEPT !.kind = "analysis", !.pc = "ga_done", !.id = id,
                                 !.result = IF analysis = Undefined THEN Undefined
                                            ELSE Some(analysisResults[analysis[1]])])
    /\ UNCHANGED <<store, client>>

GetAnalysisRespond(s) ==
    /\ h[s].pc = "ga_done"
    /\ Respond(s, IF h[s].result = Undefined THEN 404 ELSE 200)
    /\ UNCHANGED <<store, client>>

\* ---------------------------------------------- GET /api/projects/:id/files
GetFilesRoute(s, scope) ==
    /\ Free(s, scope)
    /\ \E id \in scope.projects :
        Goto(s, [Idle EXCEPT !.kind = "files", !.pc = "gf_done", !.id = id,
                             !.files = Ordered(getProjectFiles(projectFiles, id))])
    /\ UNCHANGED <<store, client>>

\* res.json(files)
GetFilesRespond(s) ==
    /\ h[s].pc = "gf_done"
    /\ Respond(s, 200)
    /\ UNCHANGED <<store, client>>

\* ------------------------- POST /api/auth/register, /api/extension/register
\* insertUserSchema.parse(req.body) throws (500) or yields username and email.
RegisterRoute(s, scope) ==
    /\ Free(s, scope)
    /\ \E valid \in BOOLEAN, insertUser \in scope.users, now \in Dates :
        IF ~valid
        THEN /\ Respond(s, 500)
             /\ UNCHANGED <<users, clock>>
        ELSE /\ Len(users) < MaxUsers
             /\ users' = createUser(users, Len(users) + 1, insertUser, now)
             /\ clock' = now
             /\ Goto(s, [Idle EXCEPT !.kind = "register", !.pc = "registered",
                                     !.ret = Some(Len(users) + 1)])
    /\ UNCHANGED <<projects, projectFiles, analysisResults, nextProjectId, nextFileId,
                   nextAnalysisId, client>>

\* `ext_user_${Date.now()}` and `ext_${Date.now()}@codestruct.ai`
ExtensionUser(t1, t2) ==
    [username |-> <<"ext_user_", ToString(t1)>>,
     email |-> <<"ext_", ToString(t2), "@codestruct.ai">>]

\* POST /api/extension/register up to its await of storage.createUser.
ExtensionRegister(s, scope) ==
    /\ Free(s, scope)
    /\ Len(users) < MaxUsers
    /\ \E t1 \in Dates :
        \E t2 \in {t \in 1..MaxClock : t1 <= t /\ t <= t1 + 1} :
        \E now \in {t \in 1..MaxClock : t2 <= t /\ t <= t2 + 1} :
            /\ users' = createUser(users, Len(users) + 1, ExtensionUser(t1, t2), now)
            /\ clock' = now
    /\ Handle(s, [Idle EXCEPT !.kind = "extension", !.pc = "registered",
                              !.ret = Some(Len(users) + 1)], "none", 0)
    /\ UNCHANGED <<projects, projectFiles, analysisResults, nextProjectId, nextFileId,
                   nextAnalysisId, client>>

\* The request of a client other than the extension's checkSubscription.
ExtensionRegisterRoute(s, scope) ==
    /\ ExtensionRegister(s, scope)
    /\ UNCHANGED <<OPENAI_API_KEY, extension>>

RegisterRespond(s) ==
    /\ h[s].pc = "registered"
    /\ Respond(s, 200)
    /\ UNCHANGED <<store, client>>

\* ------------------------------------------------- /api/extension endpoints
\* req.headers.authorization?.replace('Bearer ', ''): the token of a request
\* is undefined without the header, and else the identifier of a user or of
\* none.
ExtensionEndpoints == {"analyze", "analyze-file", "generate-docs", "improve"}

\* The one file an endpoint hands to the reasoning service.
ExtensionFile(content) ==
    [id |-> 0, path |-> <<"a", ".", "p", "y">>, content |-> content,
     language |-> detectLanguage(<<"a", ".", "p", "y">>)]

\* res.status(code).json(body): the handler is over, and the response reaches
\* the extension when it is the one its makeHttpRequest waits for.
Answer(s, code, body) ==
    /\ Handle(s, [Idle EXCEPT !.status = code], "none", 0)
    /\ extension' =
         IF extension.pc = "wait" /\ extension.slot = s
         THEN [extension EXCEPT !.pc = "end",
                                !.event = [type |-> "end", statusCode |-> code,
                                           body |-> Some(body)]]
         ELSE extension
    /\ UNCHANGED OPENAI_API_KEY

\* generateDocumentation / suggestCodeImprovements up to the first await of
\* invokeAI; a throw while the prompt is built ends in the route's catch.
ExtensionSuggest(s, handler) ==
    IF promptThrows(handler.files)
    THEN Answer(s, 500, [message |-> "Failed"])
    ELSE Goto(s, [handler EXCEPT !.pc = "ex_ai",
                                 !.tried = <<Backends(OPENAI_API_KEY)[1]>>])

\* analyzeCodebase up to its first await: it catches the throw of the prompt.
ExtensionAnalyze(s, handler) ==
    IF promptThrows(handler.files)
    THEN Goto(s, [handler EXCEPT !.pc = "ex_done",
                                 !.result = Some(analyzeCodebase(handler.files, Undefined))])
    ELSE Goto(s, [handler EXCEPT !.pc = "ex_ai",
                                 !.tried = <<Backends(OPENAI_API_KEY)[1]>>])

\* POST /api/extension/analyze, /analyze-file, /generate-docs, /improve: 401
\* without a token; then analyze and analyze-file call storage.getUser, and
\* generate-docs and improve call the reasoning service.
ExtensionRoute(s, scope) ==
    /\ Free(s, scope)
    /\ \E endpoint \in ExtensionEndpoints, token \in scope.tokens,
          content \in scope.patches :
        LET handler == [Idle EXCEPT !.kind = endpoint, !.token = token,
                                    !.files = <<ExtensionFile(content)>>]
        IN  IF token = Undefined
            THEN Answer(s, 401, [message |-> "No token provided"])
            ELSE IF endpoint \in {"analyze", "analyze-file"}
                 THEN Goto(s, [handler EXCEPT !.pc = "ex_user",
                                              !.ret = getUser(users, token[1])])
                 ELSE ExtensionSuggest(s, handler)
    /\ UNCHANGED <<store, client>>

\* After storage.getUser: 401 for no user; analyze answers 403 to a trial
\* user whose trial has expired; else the analysis is asked for.
ExtensionAuthorize(s) ==
    /\ h[s].pc = "ex_user"
    /\ IF h[s].ret = Undefined
       THEN /\ Answer(s, 401, [message |-> "Invalid token"])
            /\ UNCHANGED clock
       ELSE IF h[s].kind = "analyze"
            THEN \E now \in Dates :
                    /\ clock' = now
                    /\ IF trialExpired(h[s].ret[1], now)
                          /\ h[s].ret[1].subscriptionTier = "trial"
                       THEN Answer(s, 403, [message |-> "Trial expired"])
                       ELSE ExtensionAnalyze(s, h[s])
            ELSE /\ ExtensionAnalyze(s, h[s])
                 /\ UNCHANGED clock
    /\ UNCHANGED <<projects, projectFiles, analysisResults, nextProjectId, nextFileId,
                   nextAnalysisId, users, client>>

\* The backend that invokeAI awaits answers: invokeAI calls the next one, or
\* it is over, having returned a text or thrown.
ExtensionBackendAnswers(s) ==
    /\ h[s].pc = "ex_ai"
    /\ \E outcome \in {Undefined} \cup
                      {Some(t) : t \in IF h[s].kind \in {"analyze", "analyze-file"}
                                       THEN ReasoningTexts ELSE SuggestionTexts} :
        LET ai == invokeAI(OPENAI_API_KEY, h[s].tried, outcome)
        IN  IF ~ai.done
            THEN Goto(s, [h[s] EXCEPT !.tried = ai.tried])
            ELSE Goto(s, [h[s] EXCEPT
                            !.pc = "ex_done", !.response = ai.text,
                            !.result = IF h[s].kind \in {"analyze", "analyze-file"}
                                       THEN Some(analyzeCodebase(h[s].files, ai.text))
                                       ELSE Undefined])
    /\ UNCHANGED <<store, client>>

\* res.json(analysis), res.json({ documented }), res.json(improvements), or
\* the catch block when the reasoning call threw.
ExtensionRespond(s) ==
    /\ h[s].pc = "ex_done"
    /\ IF h[s].kind \in {"analyze", "analyze-file"}
       THEN Answer(s, 200, h[s].result[1])
       ELSE IF h[s].response = Undefined
            THEN Answer(s, 500, [message |-> "Failed"])
            ELSE IF h[s].kind = "generate-docs"
                 THEN Answer(s, 200, [documented |-> h[s].response[1]])
                 ELSE Answer(s, 200, h[s].response[1])
    /\ UNCHANGED <<store, client>>

\* GET /api/extension/subscription after the token test, awaiting
\* storage.getUser(token).
SubscriptionHandler(token) ==
    [Idle EXCEPT !.kind = "subscription", !.pc = "sub_user", !.token = token,
                 !.ret = getUser(users, token[1])]

SubscriptionRoute(s, scope) ==
    /\ Free(s, scope)
    /\ \E token \in scope.tokens :
        IF token = Undefined
        THEN Answer(s, 401, [message |-> "No token provided"])
        ELSE Goto(s, SubscriptionHandler(token))
    /\ UNCHANGED <<store, client>>

\* The body of the 200 response.
subscription(user, now) ==
    [status |-> user.subscriptionTier,
     trialExpired |-> trialExpired(user, now) /\ user.subscriptionTier = "trial",
     trialEndsAt |-> user.trialEndsAt]

SubscriptionRespond(s) ==
    /\ h[s].pc = "sub_user"
    /\ IF h[s].ret = Undefined
       THEN /\ Answer(s, 401, [message |-> "Invalid token"])
            /\ UNCHANGED clock
       ELSE \E now \in Dates :
               /\ clock' = now
               /\ Answer(s, 200, subscription(h[s].ret[1], now))
    /\ UNCHANGED <<projects, projectFiles, analysisResults, nextProjectId, nextFileId,
                   nextAnalysisId, users, client>>

\* res.json({ token: user.id })
ExtensionRegisterRespond(s) ==
    /\ h[s].pc = "registered"
    /\ Answer(s, 200, [token |-> h[s].ret[1]])
    /\ UNCHANGED <<store, client>>

\* --------------------------------------------- the extension: its requests
\* obj[key] of a parsed body: undefined for a field the body does not have.
get(obj, key) ==
    IF key \in DOMAIN obj THEN Some(obj[key]) ELSE Undefined

\* makeHttpRequest once the request has ended: the 'error' event rejects it;
\* the 'end' event resolves it with JSON.parse(body), whatever the status
\* code, and rejects it for a body that is not JSON.
makeHttpRequest(event) ==
    IF event.type = "error" \/ event.body = Undefined
    THEN [settled |-> "rejected", value |-> Undefined]
    ELSE [settled |-> "resolved", value |-> event.body]

\* checkSubscription from the response of the subscription request on: the
\* destructuring of response.data throws when the response has no data, the
\* catch block returns false; an expired trial returns false.
checkSubscription(response) ==
    IF response.settled = "rejected" THEN FALSE
    ELSE LET data == get(response.value[1], "data")
         IN  IF data = Undefined THEN FALSE
             ELSE IF get(data[1], "trialExpired") = Some(TRUE)
                     /\ get(data[1], "status") # Some("pro")
                  THEN FALSE
                  ELSE TRUE

\* `Bearer ${userToken}` as the server reads it: the text "undefined", the
\* token of no user, when no token is stored.
bearer(userToken) ==
    IF userToken = Undefined THEN Some(0) ELSE userToken

\* A command runs checkSubscription.  Without a stored token it registers:
\* POST /api/extension/register.
CheckSubscriptionRegister(s, scope) ==
    /\ extension.pc = "check"
    /\ extension.userToken = Undefined
    /\ ExtensionRegister(s, scope)
    /\ extension' = [extension EXCEPT !.pc = "wait", !.slot = s, !.call = "register"]
    /\ UNCHANGED OPENAI_API_KEY

\* GET /api/extension/subscription with the stored token.
CheckSubscriptionRequest(s, scope) ==
    /\ \/ extension.pc = "check" /\ extension.userToken # Undefined
       \/ extension.pc = "registered"
    /\ Free(s, scope)
    /\ Handle(s, SubscriptionHandler(bearer(extension.userToken)), "none", 0)
    /\ extension' = [extension EXCEPT !.pc = "wait", !.slot = s,
                                      !.call = "subscription"]
    /\ UNCHANGED <<store, client, OPENAI_API_KEY>>

\* request.on('error'): the connection fails before the response has ended.
RequestError ==
    /\ extension.pc = "wait"
    /\ extension' = [extension EXCEPT
                        !.pc = "end",
                        !.event = [type |-> "error", statusCode |-> 0, body |-> Undefined]]
    /\ UNCHANGED <<store, client, h, served, OPENAI_API_KEY>>

\* The await of makeHttpRequest is over.  After the registration
\* checkSubscription stores result.token and goes on to the subscription
\* request; after that request it returns, and the command that called it
\* returns when it returned false.
CheckSubscriptionResume ==
    /\ extension.pc = "end"
    /\ LET response == makeHttpRequest(extension.event)
       IN  extension' =
             IF extension.call = "register"
             THEN IF response.settled = "rejected"
                  THEN [extension EXCEPT !.pc = "returned", !.ret = Some(FALSE)]
                  ELSE [extension EXCEPT
                           !.pc = "registered",
                           !.userToken = get(response.value[1], "token")]
             ELSE [extension EXCEPT !.pc = "returned",
                                    !.response = response,
                                    !.ret = Some(checkSubscription(response))]
    /\ UNCHANGED <<store, client, h, served, OPENAI_API_KEY>>

\* The user runs a command again once the last one is over: it returned when
\* checkSubscription returned false.
Command ==
    /\ extension.pc = "returned"
    /\ extension.ret = Some(FALSE)
    /\ extension' = [extension EXCEPT !.pc = "check", !.ret = Undefined]
    /\ UNCHANGED <<store, client, h, served, OPENAI_API_KEY>>

\* -------------------------------------- the extension: collectProjectFiles
\* scanDirectory(dirPath) has been called: it returns at once when the cap
\* is reached, else awaits readdir, which may fail.
ScanDirectory ==
    /\ extension.pc = "scan"
    /\ extension.stack # <<>>
    /\ LET top == extension.stack[Len(extension.stack)]
           rest == SubSeq(extension.stack, 1, Len(extension.stack) - 1)
       IN  /\ ~top.listed
           /\ extension' =
                IF capReached(extension.files)
                THEN [extension EXCEPT !.stack = rest]
                ELSE IF top.dir \in extension.tree.denied
                THEN [extension EXCEPT !.pc = "thrown", !.stack = <<>>,
                                       !.readdir = @ \cup {top.dir}]
                ELSE [extension EXCEPT !.stack = Append(rest, [top EXCEPT !.listed = TRUE]),
                                       !.readdir = @ \cup {top.dir}]
    /\ UNCHANGED <<store, client, h, served, OPENAI_API_KEY>>

\* One turn of the loop over the listed items, up to its next await.
ScanItem ==
    /\ extension.pc = "scan"
    /\ extension.stack # <<>>
    /\ LET top == extension.stack[Len(extension.stack)]
           rest == SubSeq(extension.stack, 1, Len(extension.stack) - 1)
           items == extension.tree.dirs[top.dir]
           item == items[top.i]
           relativePath == relative(top.dirPath, item.name)
           next == Append(rest, [top EXCEPT !.i = @ + 1])
       IN  /\ top.listed
           /\ extension' =
                IF top.i > Len(items) \/ capReached(extension.files)
                THEN [extension EXCEPT !.stack = rest]
                ELSE IF ignored(relativePath)
                THEN [extension EXCEPT !.stack = next]
                ELSE IF item.isDirectory
                THEN [extension EXCEPT
                        !.stack = Append(next, [dir |-> item.dir, dirPath |-> relativePath,
                                                i |-> 1, listed |-> FALSE])]
                ELSE IF extname(item.name) \in supportedExtensions
                THEN [extension EXCEPT
                        !.stack = next,
                        !.readFile = Append(@, relativePath),
                        !.files = IF item.readable
                                  THEN Append(@, [path |-> relativePath,
                                                  content |-> item.content,
                                                  language |-> getLanguageFromExtension(
                                                                  extname(item.name))])
                                  ELSE @]
                ELSE [extension EXCEPT !.stack = next]
    /\ UNCHANGED <<store, client, h, served, OPENAI_API_KEY>>

\* await scanDirectory(projectPath) is over: return files.
ScanReturn ==
    /\ extension.pc = "scan"
    /\ extension.stack = <<>>
    /\ extension' = [extension EXCEPT !.pc = "returned"]
    /\ UNCHANGED <<store, client, h, served, OPENAI_API_KEY>>

\* ------------------------------- the client: CodeEditor, DiffPreview, home
\* FileExplorer: a click on a listed file.
SelectFile ==
    /\ \E f \in DOMAIN projectFiles :
        /\ f # selectedFile
        /\ selectedFile' = f
    /\ UNCHANGED <<store, h, served, OPENAI_API_KEY, extension, diffData>>

\* POST /api/files/:id/document and /improve, sent by CodeEditor for the
\* selected file: storage.getProjectFile(req.params.id).
SuggestStart(s, scope) ==
    /\ Free(s, scope)
    /\ selectedFile # 0
    /\ \E kind \in {"document", "improve"} :
        Goto(s, [Idle EXCEPT !.kind = kind, !.pc = "sg_file", !.id = selectedFile,
                             !.ret = getProjectFile(projectFiles, selectedFile),
                             !.files = IF selectedFile \in DOMAIN projectFiles
                                       THEN <<Snapshot(projectFiles, selectedFile)>>
                                       ELSE <<>>])
    /\ UNCHANGED <<store, client>>

\* if (!file) 404; else generateDocumentation / suggestCodeImprovements up to
\* the first await of invokeAI; a throw while building the prompt ends in the
\* route's catch block.
SuggestDispatch(s) ==
    /\ h[s].pc = "sg_file"
    /\ IF h[s].ret = Undefined
       THEN Respond(s, 404)
       ELSE IF promptThrows(h[s].files)
            THEN Respond(s, 500)
            ELSE Goto(s, [h[s] EXCEPT !.pc = "sg_ai",
                              !.tried = <<Backends(OPENAI_API_KEY)[1]>>])
    /\ UNCHANGED <<store, client>>

\* The suggestion CodeEditor hands to onDiffGenerated from a 200 response.
Suggestion(kind, file, text) ==
    [type |-> IF kind = "document" THEN "documentation" ELSE "improvement",
     original |-> file.content, improved |-> text,
     file |-> [id |-> file.id, path |-> file.path, language |-> file.language]]

\* The backend that invokeAI awaits answers: invokeAI calls the next one, or
\* it is over, having returned a text or thrown.
SuggestBackendAnswers(s) ==
    /\ h[s].pc = "sg_ai"
    /\ \E outcome \in {Undefined} \cup {Some(t) : t \in SuggestionTexts} :
        LET ai == invokeAI(OPENAI_API_KEY, h[s].tried, outcome)
        IN  IF ~ai.done
            THEN Goto(s, [h[s] EXCEPT !.tried = ai.tried])
            ELSE Goto(s, [h[s] EXCEPT !.pc = "sg_done", !.response = ai.text])
    /\ UNCHANGED <<store, client>>

suggestStatus_ok(text) ==
    200

\* The route after its await of generateDocumentation / suggestCodeImprovements:
\* res.json(...) with the text, or the catch block when the call threw.
suggestStatus(text) ==
    IF text = Undefined THEN 500 ELSE 200

\* The route answers, and on 200 the client's onSuccess sets diffData.
SuggestRespond(s) ==
    /\ h[s].pc = "sg_done"
    /\ Respond(s, suggestStatus(h[s].response))
    /\ diffData' = IF suggestStatus(h[s].response) = 200
                   THEN Some(Suggestion(h[s].kind, h[s].files[1],
                                        IF h[s].response = Undefined THEN Undefined
                                        ELSE h[s].response[1]))
                   ELSE diffData
    /\ UNCHANGED <<store, selectedFile>>

applyTarget_selected(data, selected) ==
    selected

\* The file DiffPreview sends the PATCH for.
applyTarget(data, selected) ==
    data.file.id

\* DiffPreview, Apply Changes: PATCH /api/files/${data.file.id} with the
\* suggestion's text.  The button is disabled while a PATCH of it is pending.
ApplyChanges(s, scope) ==
    /\ Free(s, scope)
    /\ diffData # Undefined
    /\ \A t \in Slots : h[t].kind # "apply"
    /\ LET data == diffData[1]
           id == applyTarget(data, selectedFile)
           file == updateProjectFile(projectFiles, id, [content |-> data.improved])
       IN  /\ id # 0
           /\ projectFiles' = file.store
           /\ Goto(s, [Idle EXCEPT !.kind = "apply", !.pc = "patched", !.id = id,
                                   !.content = data.improved, !.ret = file.ret])
    /\ UNCHANGED <<projects, analysisResults, nextProjectId, nextFileId, nextAnalysisId,
                   clock, users, client>>

\* DiffPreview, Reject.
RejectChanges ==
    /\ diffData # Undefined
    /\ diffData' = Undefined
    /\ UNCHANGED <<store, h, served, OPENAI_API_KEY, extension, selectedFile>>

AnalyzeNext ==
    \E s \in Slots :
        \/ CreateProjectRoute(s, AnalyzeScope)
        \/ CreateProjectRespond(s)
        \/ DeleteProjectFilesStep(s, AnalyzeScope)
        \/ DeleteProjectStep(s)
        \/ DeleteProjectRespond(s)
        \/ UploadStart(s, AnalyzeScope)
        \/ UploadClear(s)
        \/ UploadCreateFile(s)
        \/ UploadUpdateProject(s)
        \/ UploadRespond(s)
        \/ PatchFile(s, AnalyzeScope)
        \/ PatchRespond(s)
        \/ AnalyzeStart(s, AnalyzeScope)
        \/ AnalyzeGetFiles(s)
        \/ AnalyzeDispatch(s)
        \/ AnalyzeBackendAnswers(s)
        \/ AnalyzeStore(s)
        \/ AnalyzeRespond(s)

AnalyzeSpec == Init /\ [][AnalyzeNext]_vars

SuggestNext ==
    \/ SelectFile
    \/ RejectChanges
    \/ \E s \in Slots :
        \/ CreateProjectRoute(s, SuggestScope)
        \/ CreateProjectRespond(s)
        \/ UploadStart(s, SuggestScope)
        \/ UploadClear(s)
        \/ UploadCreateFile(s)
        \/ UploadUpdateProject(s)
        \/ UploadRespond(s)
        \/ PatchFile(s, SuggestScope)
        \/ PatchRespond(s)
        \/ SuggestStart(s, SuggestScope)
        \/ SuggestDispatch(s)
        \/ SuggestBackendAnswers(s)
        \/ SuggestRespond(s)
        \/ ApplyChanges(s, SuggestScope)

SuggestSpec == Init /\ [][SuggestNext]_vars

\* The analyses a store holds after it created one per element of `seq`.
RECURSIVE AnalysesCreated(_)
AnalysesCreated(seq) ==
    IF seq = <<>> THEN <<>>
    ELSE createAnalysis(AnalysesCreated(SubSeq(seq, 1, Len(seq) - 1)), Len(seq),
                        seq[Len(seq)].projectId, demoAnalysis(<<>>),
                        seq[Len(seq)].createdAt)

LatestScope ==
    [requests |-> MaxRequests, projects |-> ProjectIds \cup {MaxProjects + 1},
     batches |-> {}, patches |-> {}]

\* A store that holds the projects and up to MaxStoredAnalyses analyses of
\* them, created in any order of their creation times.
LatestInit ==
    /\ projects = createProject(createProject(<<>>, 1, DemoUser, [name |-> "p"]),
                                2, DemoUser, [name |-> "p"])
    /\ nextProjectId = MaxProjects + 1
    /\ projectFiles = <<>>
    /\ nextFileId = 1
    /\ \E seq \in SeqsUpTo([projectId : ProjectIds, createdAt : 1..MaxDate],
                            MaxStoredAnalyses) :
        /\ analysisResults = AnalysesCreated(seq)
        /\ nextAnalysisId = Len(seq) + 1
    /\ clock = MaxDate
    /\ users = DemoUsers
    /\ h = [s \in Slots |-> Idle]
    /\ served = 0
    /\ OPENAI_API_KEY \in BOOLEAN
    /\ extension = NoCommand
    /\ selectedFile = 0
    /\ diffData = Undefined

LatestNext ==
    \E s \in Slots :
        \/ GetAnalysisRoute(s, LatestScope)
        \/ GetAnalysisRespond(s)
        \/ GetFilesRoute(s, LatestScope)
        \/ GetFilesRespond(s)

LatestSpec == LatestInit /\ [][LatestNext]_vars

UserScope ==
    [requests |-> MaxRequests, projects |-> {}, batches |-> {}, patches |-> {},
     users |-> InsertUser]

UserNext ==
    \E s \in Slots :
        \/ RegisterRoute(s, UserScope)
        \/ ExtensionRegisterRoute(s, UserScope)
        \/ RegisterRespond(s)

UserSpec == Init /\ [][UserNext]_vars

\* The extension's endpoints and the subscription check of its commands.
\* Requests carry no token, the token of a user, or one of no user.
ExtensionScope ==
    [requests |-> MaxExtensionRequests, projects |-> {}, batches |-> {}, patches |-> PatchContent,
     users |-> {},
     tokens |-> {Undefined} \cup {Some(u) : u \in {DemoUser, DemoUser + 1, MaxUsers + 1}}]

\* The store some time after its start: the demo user, and an extension user
\* registered at `now` whose tier storage.updateUser has set.
Registered(now, tier) ==
    updateUser(createUser(createUser(<<>>, DemoUser, DemoInsertUser, 0),
                          DemoUser + 1, ExtensionUser(now, now), now),
               DemoUser + 1, [subscriptionTier |-> tier])

\* A command of the extension is about to run checkSubscription; globalState
\* holds no token, the token of the extension user, or one of an earlier run
\* of the server.
ExtensionInit ==
    /\ projects = <<>>
    /\ projectFiles = <<>>
    /\ analysisResults = <<>>
    /\ nextProjectId = 1
    /\ nextFileId = 1
    /\ nextAnalysisId = 1
    /\ clock = 1
    /\ \E now \in 0..1, tier \in {"trial", "pro"} : users = Registered(now, tier)
    /\ h = [s \in Slots |-> Idle]
    /\ served = 0
    /\ OPENAI_API_KEY \in BOOLEAN
    /\ \E userToken \in {Undefined, Some(DemoUser + 1), Some(MaxUsers + 1)} :
        extension = [pc |-> "check", userToken |-> userToken, slot |-> 0,
                     call |-> "none",
                     event |-> [type |-> "none", statusCode |-> 0, body |-> Undefined],
                     response |-> [settled |-> "none", value |-> Undefined],
                     ret |-> Undefined]
    /\ selectedFile = 0
    /\ diffData = Undefined

ExtensionNext ==
    \E s \in Slots :
        \/ ExtensionRoute(s, ExtensionScope)
        \/ ExtensionAuthorize(s)
        \/ ExtensionBackendAnswers(s)
        \/ ExtensionRespond(s)

ExtensionSpec == ExtensionInit /\ [][ExtensionNext]_vars

SubscriptionNext ==
    \/ \E s \in Slots :
        \/ SubscriptionRoute(s, ExtensionScope)
        \/ SubscriptionRespond(s)
        \/ ExtensionRegisterRoute(s, ExtensionScope)
        \/ ExtensionRegisterRespond(s)
        \/ CheckSubscriptionRegister(s, ExtensionScope)
        \/ CheckSubscriptionRequest(s, ExtensionScope)
    \/ RequestError
    \/ CheckSubscriptionResume
    \/ Command

SubscriptionSpec == ExtensionInit /\ [][SubscriptionNext]_vars

\* The language tags of a file name: the server's, as the upload route takes
\* it from originalname, and the extension's, as collectProjectFiles takes it
\* from path.extname(item.name).
TagFile ==
    /\ extension.pc = "name"
    /\ extension' = [extension EXCEPT
                        !.pc = "tagged",
                        !.server = Some(detectLanguage(extension.filename)),
                        !.extension = Some(getLanguageFromExtension(
                                               extname(extension.filename)))]
    /\ UNCHANGED <<store, client, h, served, OPENAI_API_KEY>>

\* File names of up to MaxNameLen characters.
FileNames == SeqsUpTo({"a", ".", "p", "y", "P", "Y", "/"}, MaxNameLen)

LanguageInit ==
    /\ projects = <<>>
    /\ projectFiles = <<>>
    /\ analysisResults = <<>>
    /\ nextProjectId = 1
    /\ nextFileId = 1
    /\ nextAnalysisId = 1
    /\ clock = 1
    /\ users = DemoUsers
    /\ h = [s \in Slots |-> Idle]
    /\ served = 0
    /\ OPENAI_API_KEY \in BOOLEAN
    /\ selectedFile = 0
    /\ diffData = Undefined
    /\ \E filename \in FileNames :
        extension = [pc |-> "name", filename |-> filename, server |-> Undefined,
                     extension |-> Undefined]

LanguageNext == TagFile

LanguageSpec == LanguageInit /\ [][LanguageNext]_vars

\* A content of n characters.
Content(n) == [k \in 1..n |-> ToString(k % 10)]

\* Contents around the length the prompt takes of a file, and no content.
PromptContents ==
    {Undefined} \cup {Content(n) : n \in {1} \cup (sampleLength - 1)..(sampleLength + MaxExcess)}

\* Stored files with such contents, named a.py and b.ts.
PromptFiles ==
    {<<>>} \cup
    {<<[path |-> <<"a", ".", "p", "y">>, content |-> c, language |-> "python",
        size |-> Len(c)]>> : c \in PromptContents} \cup
    {<<[path |-> <<"a", ".", "p", "y">>, content |-> c, language |-> "python",
        size |-> Len(c)],
       [path |-> <<"b", ".", "t", "s">>, content |-> d, language |-> "typescript",
        size |-> Len(d)]>> : c \in PromptContents, d \in PromptContents}

\* The files a store holds after it created one per element of `seq`.
RECURSIVE FilesCreated(_, _)
FilesCreated(seq, projectId) ==
    IF seq = <<>> THEN <<>>
    ELSE createProjectFile(FilesCreated(SubSeq(seq, 1, Len(seq) - 1), projectId),
                           Len(seq), projectId, seq[Len(seq)])

\* POST /api/projects/1/analyze has read the project and its files.
PromptInit ==
    /\ projects = createProject(<<>>, 1, DemoUser, [name |-> "p"])
    /\ nextProjectId = 2
    /\ \E seq \in PromptFiles :
        /\ projectFiles = FilesCreated(seq, 1)
        /\ nextFileId = Len(seq) + 1
        /\ h = [s \in Slots |->
                  IF s = 1
                  THEN [Idle EXCEPT !.kind = "analyze", !.pc = "an_files", !.id = 1,
                                    !.ret = Some(1),
                                    !.files = [k \in 1..Len(seq) |->
                                                  Snapshot(FilesCreated(seq, 1), k)]]
                  ELSE Idle]
    /\ analysisResults = <<>>
    /\ nextAnalysisId = 1
    /\ clock = 1
    /\ users = DemoUsers
    /\ served = 1
    /\ OPENAI_API_KEY \in BOOLEAN
    /\ extension = NoCommand
    /\ selectedFile = 0
    /\ diffData = Undefined

PromptNext ==
    \E s \in Slots : AnalyzeDispatch(s)

PromptSpec == PromptInit /\ [][PromptNext]_vars

\* collectProjectFiles(projectPath) has been called on some tree.
CollectInit ==
    /\ projects = <<>>
    /\ projectFiles = <<>>
    /\ analysisResults = <<>>
    /\ nextProjectId = 1
    /\ nextFileId = 1
    /\ nextAnalysisId = 1
    /\ clock = 1
    /\ users = DemoUsers
    /\ h = [s \in Slots |-> Idle]
    /\ served = 0
    /\ OPENAI_API_KEY \in BOOLEAN
    /\ selectedFile = 0
    /\ diffData = Undefined
    /\ \E tree \in Trees :
        extension = [pc |-> "scan", tree |-> tree, files |-> <<>>, readFile |-> <<>>,
                     readdir |-> {},
                     stack |-> <<[dir |-> 1, dirPath |-> <<>>, i |-> 1, listed |-> FALSE]>>]

CollectNext ==
    \/ ScanDirectory
    \/ ScanItem
    \/ ScanReturn

CollectSpec == CollectInit /\ [][CollectNext]_vars

\* ------------------------------------------------------------------ claims
\* The handler in slot s answers with status `code` in this step.
Answers(s, code) ==
    h[s].pc # "idle" /\ h'[s].pc = "idle" /\ h'[s].status = code

\* The slots whose upload has updated the project and is about to answer 200.
UploadsCompleting == {s \in Slots : h[s].pc = "up_updated"}

languagesOf(files, projectId) ==
    {files[f].language : f \in getProjectFiles(files, projectId)} \ {Null}

\* C1: when an upload that no other request on the project interleaved with
\* answers 500, the project stores the files it stored when the upload arrived.
C1_OldSetIntactOnFailure ==
    [][\A s \in Slots :
          (h[s].kind = "upload" /\ h[s].others = {} /\ Answers(s, 500))
              => getProjectFiles(projectFiles', h[s].id) = h[s].previous]_vars

C3_NoOrphanFiles ==
    \A f \in DOMAIN projectFiles : projectFiles[f].projectId \in DOMAIN projects

\* C4: when deleteProject(id) returns, the store holds no project, file or
\* analysis of id, and neither of its two steps changes what is stored for
\* another project.
C4_DeleteProjectPostcondition ==
    [][\A s \in Slots :
          /\ (h[s].pc = "del_files" /\ h'[s].pc = "deleted") =>
                 /\ h[s].id \notin DOMAIN projects'
                 /\ getProjectFiles(projectFiles', h[s].id) = {}
                 /\ \A a \in DOMAIN analysisResults' :
                        analysisResults'[a].projectId # h[s].id
          /\ (h'[s].kind = "delete" /\ h'[s].pc \in {"del_files", "deleted"}
              /\ h'[s].pc # h[s].pc) =>
                 /\ \A p \in DOMAIN projects \ {h'[s].id} :
                        p \in DOMAIN projects' /\ projects'[p] = projects[p]
                 /\ \A f \in DOMAIN projectFiles :
                        projectFiles[f].projectId # h'[s].id =>
                            f \in DOMAIN projectFiles' /\ projectFiles'[f] = projectFiles[f]
                 /\ \A a \in DOMAIN analysisResults :
                        analysisResults[a].projectId # h'[s].id =>
                            a \in DOMAIN analysisResults'
                            /\ analysisResults'[a] = analysisResults[a]]_vars

\* The files stored for the upload's project are the records it created, in
\* the order of the batch, and none of the previous ones.
ExactlyUploaded(s) ==
    /\ getProjectFiles(projectFiles, h[s].id)
           = {h[s].uploadedFiles[k].id : k \in 1..Len(h[s].uploadedFiles)}
    /\ Len(h[s].uploadedFiles) = Len(h[s].files)
    /\ \A k \in 1..Len(h[s].files) :
           /\ projectFiles[h[s].uploadedFiles[k].id].path = h[s].files[k].originalname
           /\ projectFiles[h[s].uploadedFiles[k].id].projectId = h[s].id
    /\ h[s].previous \cap DOMAIN projectFiles = {}

\* C5: a successful upload that no other upload to the same project
\* interleaved with leaves exactly the uploaded records stored for the
\* project, and none of the previous ones.
C5_ReplaceWithoutOtherUpload ==
    \A s \in UploadsCompleting : "upload" \notin h[s].others => ExactlyUploaded(s)

\* C6: a PATCH whose identifier resolves to no stored file gets undefined
\* from updateProjectFile and is answered 404; neither step creates a file
\* record or changes a stored one.
C6_PatchMissingIsNoOp ==
    [][\A s \in Slots :
          /\ (h[s].pc = "idle" /\ h'[s].pc = "patched"
              /\ h'[s].id \notin DOMAIN projectFiles) =>
                 h'[s].ret = Undefined /\ projectFiles' = projectFiles
          /\ (h[s].pc = "patched" /\ h[s].ret = Undefined /\ h'[s].pc = "idle") =>
                 h'[s].status = 404 /\ projectFiles' = projectFiles]_vars

C6_Witness ==
    \E s \in Slots :
        /\ h[s].pc = "patched"
        /\ h[s].ret = Undefined
        /\ h[s].content # Undefined
        /\ h[s].id \notin DOMAIN projectFiles
        /\ projectFiles # <<>>

\* C7: a PATCH of a stored file, whatever its body, leaves the set of stored
\* file identifiers, every other file record, and every field of the patched
\* record but content as they were.
C7_PatchChangesOnlyContent ==
    [][\A s \in Slots :
          (h[s].pc = "idle" /\ h'[s].pc = "patched" /\ h'[s].id \in DOMAIN projectFiles) =>
              /\ DOMAIN projectFiles' = DOMAIN projectFiles
              /\ \A f \in DOMAIN projectFiles \ {h'[s].id} :
                     projectFiles'[f] = projectFiles[f]
              /\ DOMAIN projectFiles'[h'[s].id] = DOMAIN projectFiles[h'[s].id]
              /\ \A k \in DOMAIN projectFiles[h'[s].id] \ {"content"} :
                     projectFiles'[h'[s].id][k] = projectFiles[h'[s].id][k]
              /\ projectFiles'[h'[s].id].content = h'[s].content]_vars

C7_Witness ==
    \E s \in Slots :
        /\ h[s].pc = "patched"
        /\ h[s].ret # Undefined
        /\ h[s].id \in DOMAIN projectFiles
        /\ projectFiles[h[s].id].content = <<"patched">>
        /\ projectFiles[h[s].id].path = <<"a", ".", "p", "y">>
        /\ Cardinality(DOMAIN projectFiles) = 2

\* The step in which DiffPreview sends the PATCH of the suggestion on display.
Applies(s) ==
    h[s].pc = "idle" /\ h'[s].kind = "apply"

\* C8 as stated: accepting a suggestion writes its text to the file the
\* suggestion was computed against and to no other, and only while that file
\* still has the content the suggestion was computed against.
C8_SameFileSameVersion ==
    [][\A s \in Slots :
          Applies(s) =>
              /\ h'[s].id = diffData[1].file.id
              /\ \A f \in DOMAIN projectFiles \ {diffData[1].file.id} :
                     f \in DOMAIN projectFiles' /\ projectFiles'[f] = projectFiles[f]
              /\ projectFiles' # projectFiles =>
                     projectFiles[diffData[1].file.id].content = diffData[1].original]_vars

\* C8 amended: the suggestion on display carries the identifier and the
\* content of the file the route read to compute it; accepting it sends the
\* PATCH to that identifier, whichever file is selected in the editor, writes
\* the suggestion's text to that file if it is still stored, and changes no
\* other file.  (The write is unconditional: whatever content the file has at
\* that time is overwritten.)
C8_AppliedToSuggestionFile ==
    [][\A s \in Slots :
          /\ (h[s].pc = "sg_done" /\ Answers(s, 200)) =>
                 /\ diffData'[1].file.id = h[s].files[1].id
                 /\ diffData'[1].file.id = h[s].id
                 /\ diffData'[1].original = h[s].files[1].content
          /\ Applies(s) =>
                 /\ h'[s].id = diffData[1].file.id
                 /\ DOMAIN projectFiles' = DOMAIN projectFiles
                 /\ \A f \in DOMAIN projectFiles \ {diffData[1].file.id} :
                        projectFiles'[f] = projectFiles[f]
                 /\ diffData[1].file.id \in DOMAIN projectFiles =>
                        projectFiles'[diffData[1].file.id].content
                            = diffData[1].improved]_vars

C8_Witness ==
    \E s \in Slots :
        /\ h[s].kind = "apply"
        /\ h[s].ret # Undefined
        /\ diffData # Undefined
        /\ h[s].id = diffData[1].file.id
        /\ selectedFile \in DOMAIN projectFiles \ {h[s].id}
        /\ h[s].id \in DOMAIN projectFiles
        /\ projectFiles[h[s].id].content = diffData[1].improved

\* The text has the structure analyzeCodebase asks the service for.
ValidStructuredOutput(text) ==
    /\ JSONparse(text) # Undefined
    /\ {"detectedLanguages", "architecture", "issues", "suggestions"}
           \subseteq DOMAIN JSONparse(text)[1]

\* C9: when the service's text is not valid structured output, the analysis
\* that analyzeCodebase returns and the route stores is the fallback result:
\* one default language entry, the parsing-error architecture string, no
\* issues and no suggestions.
C9_FallbackOnInvalidOutput ==
    \A s \in Slots :
        (h[s].pc = "an_stored" /\ h[s].response # Undefined
         /\ ~ValidStructuredOutput(h[s].response[1])) =>
            /\ h[s].result = Some(parseFallback)
            /\ "detectedLanguages" \in DOMAIN analysisResults[h[s].ret[1]]

\* C10: when every configured backend has failed, analyzeCodebase returns the
\* result it returns for unparseable output.
C10_ParseFallbackWhenAllFail ==
    \A s \in Slots :
        (h[s].pc = "an_stored" /\ h[s].response = Undefined
         /\ h[s].tried = Backends(OPENAI_API_KEY)) =>
            h[s].result = Some(parseFallback)

\* A step of the document or improve handler in slot s.
SuggestStep(s) ==
    /\ h[s].kind \in {"document", "improve"} \/ h'[s].kind \in {"document", "improve"}
    /\ h'[s] # h[s]

\* C11: on the document and improve paths invokeAI throws only after every
\* configured backend has been called and has failed; the route then answers
\* 500 and the client is handed no suggestion; and no step of these handlers
\* changes a stored project, file or analysis.
C11_BackendFailureIs500 ==
    [][\A s \in Slots :
          /\ (h[s].pc = "sg_ai" /\ h'[s].pc = "sg_done" /\ h'[s].response = Undefined) =>
                 h'[s].tried = Backends(OPENAI_API_KEY)
          /\ (h[s].pc = "sg_done" /\ h[s].response = Undefined /\ h'[s].pc = "idle") =>
                 h'[s].status = 500 /\ diffData' = diffData
          /\ SuggestStep(s) =>
                 /\ projects' = projects
                 /\ projectFiles' = projectFiles
                 /\ analysisResults' = analysisResults]_vars

C11_Witness ==
    \E s \in Slots :
        /\ h[s].kind \in {"document", "improve"}
        /\ h[s].pc = "sg_done"
        /\ h[s].response = Undefined
        /\ h[s].tried = <<"amazon.nova-lite-v1:0", "openai">>
        /\ h[s].id \in DOMAIN projectFiles

\* C12: getLatestAnalysis(projectId) returns, among the analyses of that
\* project, one whose creation time is the greatest, whatever the order in
\* which they were inserted and whatever other projects hold; it returns
\* nothing when the project has no analysis.
C12_LatestIsMaxCreatedAt ==
    \A s \in Slots :
        h[s].pc = "ga_done" =>
            LET mine == {a \in DOMAIN analysisResults :
                            analysisResults[a].projectId = h[s].id}
            IN  IF mine = {} THEN h[s].result = Undefined
                ELSE \E a \in mine :
                        /\ h[s].result = Some(analysisResults[a])
                        /\ \A b \in mine : analysisResults[b].createdAt
                                               <= analysisResults[a].createdAt

\* The later analysis was inserted first, and another project holds one that
\* is later than both.
C12_Witness ==
    \E s \in Slots, a, b, c \in DOMAIN analysisResults :
        /\ h[s].pc = "ga_done"
        /\ analysisResults[a].projectId = h[s].id
        /\ analysisResults[b].projectId = h[s].id
        /\ analysisResults[c].projectId # h[s].id
        /\ a < b
        /\ analysisResults[b].createdAt < analysisResults[a].createdAt
        /\ analysisResults[a].createdAt < analysisResults[c].createdAt
        /\ h[s].result = Some(analysisResults[a])

C14_UnknownProjectIsNotFound ==
    [][\A s \in Slots :
          /\ h[s].pc \in {"ga_done", "gf_done"}
          /\ h[s].id \notin DOMAIN projects
          /\ h'[s].pc = "idle"
          => h'[s].status = 404
    ]_vars

\* C15: a stored analysis never changes; an analyze request answers 200 only
\* after the step that stored its result, and that step adds exactly one new
\* record, of its project, and removes none; no other step adds an analysis;
\* an analysis leaves the store only in a deleteProject of its project.
C15_AnalysesAppendOnly ==
    [][/\ \A a \in DOMAIN analysisResults \cap DOMAIN analysisResults' :
              analysisResults'[a] = analysisResults[a]
       /\ \A s \in Slots :
              /\ h[s].kind = "analyze" /\ h'[s].pc = "idle" /\ h'[s].status = 200
                    => h[s].pc = "an_stored" /\ analysisResults' = analysisResults
              /\ h[s].pc # "an_stored" /\ h'[s].pc = "an_stored" =>
                    \E a \in AnalysisIds \ DOMAIN analysisResults :
                        /\ DOMAIN analysisResults' = DOMAIN analysisResults \cup {a}
                        /\ analysisResults'[a].projectId = h[s].id
                        /\ h'[s].ret = Some(a)
       /\ DOMAIN analysisResults' \ DOMAIN analysisResults # {} =>
              \E s \in Slots : h[s].pc # "an_stored" /\ h'[s].pc = "an_stored"
       /\ \A a \in DOMAIN analysisResults \ DOMAIN analysisResults' :
              \E t \in Slots : /\ h[t].pc = "del_files" /\ h'[t].pc = "deleted"
                               /\ h[t].id = analysisResults[a].projectId
    ]_vars

\* The second analysis of a project has been stored beside the first.
C15_Witness ==
    \E s \in Slots, a \in DOMAIN analysisResults :
        /\ h[s].pc = "an_stored"
        /\ h[s].ret # Some(a)
        /\ h[s].ret[1] \in DOMAIN analysisResults
        /\ analysisResults[a].projectId = h[s].id

\* C16: no two stored files of the same project have the same path.
C16_PathsUniqueWithinProject ==
    \A f, g \in DOMAIN projectFiles :
        f # g /\ projectFiles[f].projectId = projectFiles[g].projectId
            => projectFiles[f].path # projectFiles[g].path

\* C17: no two stored users have the same username, and no two the same
\* email.
C17_UsernameAndEmailUnique ==
    \A u, v \in DOMAIN users :
        u # v => users[u].username # users[v].username
                 /\ users[u].email # users[v].email

\* The files of directory `dir` that are neither ignored nor unsupported nor
\* unreadable, in the order of a walk that takes every directory in turn.
RECURSIVE Walk(_, _, _, _)
Walk(tree, dir, dirPath, i) ==
    IF i > Len(tree.dirs[dir]) THEN <<>>
    ELSE LET item == tree.dirs[dir][i]
             relativePath == relative(dirPath, item.name)
         IN  (IF ignored(relativePath) THEN <<>>
              ELSE IF item.isDirectory THEN Walk(tree, item.dir, relativePath, 1)
              ELSE IF extname(item.name) \in supportedExtensions /\ item.readable
                   THEN <<relativePath>>
                   ELSE <<>>)
             \o Walk(tree, dir, dirPath, i + 1)

\* C18: the list collectProjectFiles builds never holds more than maxFiles
\* records; once it holds maxFiles, no file is read, no directory listed and
\* the call does not fail; what it returns are the first maxFiles eligible
\* files of the walk, all of them when there are fewer.
C18_CollectStopsAtCap ==
    [][/\ extension.pc # "none" => Len(extension.files) <= maxFiles
       /\ extension.pc = "scan" /\ Len(extension.files) >= maxFiles =>
            /\ extension'.readFile = extension.readFile
            /\ extension'.readdir = extension.readdir
            /\ extension'.files = extension.files
            /\ extension'.pc # "thrown"
       /\ extension.pc = "returned" =>
            LET all == Walk(extension.tree, 1, <<>>, 1)
                kept == IF Len(all) > maxFiles THEN SubSeq(all, 1, maxFiles) ELSE all
            IN  [k \in 1..Len(extension.files) |-> extension.files[k].path] = kept
    ]_vars

\* A tree with more eligible files than the cap, and a directory that cannot
\* be listed behind them, has been scanned.
C18_Witness ==
    /\ extension.pc = "returned"
    /\ Len(extension.files) = maxFiles
    /\ Len(Walk(extension.tree, 1, <<>>, 1)) > maxFiles
    /\ extension.tree.denied # {}
    /\ Len(extension.readFile) = maxFiles + 1

\* The tag that `map` gives the lowercased extension of a file name.
TagOfLowercased(map, filename) ==
    LET ext == toLowerCase(extname(filename))
    IN  IF ext \in DOMAIN map THEN map[ext] ELSE "text"

RecordsOf(s) ==
    {h[s].uploadedFiles[k].id : k \in 1..Len(h[s].uploadedFiles)}

\* C20: when two uploads to one project have both made their last storage
\* call and are about to answer success, the files stored for the project are
\* records of the two; they can be the records of neither upload alone, and
\* unless a delete of the project ran meanwhile that happens only when each
\* upload made storage calls while the other was under way.
C20_MixOnlyWhenInterleaved ==
    \A s, t \in UploadsCompleting :
        s # t /\ h[s].id = h[t].id =>
            LET stored == getProjectFiles(projectFiles, h[s].id)
            IN  /\ stored \subseteq RecordsOf(s) \cup RecordsOf(t)
                /\ stored \notin {RecordsOf(s), RecordsOf(t)}
                   /\ "delete" \notin h[s].others \cup h[t].others
                   => "upload" \in h[s].others \cap h[t].others

\* Both uploads are about to answer success and the project stores a record
\* of each but the whole batch of neither.
C20_Witness ==
    \E s, t \in UploadsCompleting :
        LET stored == getProjectFiles(projectFiles, h[s].id)
        IN  /\ s # t
            /\ h[s].id = h[t].id
            /\ h[s].others = {"upload"}
            /\ h[t].others = {"upload"}
            /\ stored \cap RecordsOf(s) # {}
            /\ stored \cap RecordsOf(t) # {}
            /\ stored \notin {RecordsOf(s), RecordsOf(t)}

\* C21: within one invokeAI call the backends called so far are the first
\* ones of the preference order (the Bedrock models, then OpenAI when the key
\* is set), each once; a failed backend is followed by the next one of the
\* order; when invokeAI returns a text no further backend is called, and it
\* throws only when every backend of the order has been called and failed.
C21_BackendsInOrderOnce ==
    [][\A s \in Slots :
          LET order == Backends(OPENAI_API_KEY)
          IN  /\ h[s].pc = "an_ai" =>
                    /\ Len(h[s].tried) \in 1..Len(order)
                    /\ h[s].tried = SubSeq(order, 1, Len(h[s].tried))
              /\ h[s].pc = "an_ai" /\ h'[s].pc = "an_ai" /\ h'[s].tried # h[s].tried =>
                    h'[s].tried = Append(h[s].tried, order[Len(h[s].tried) + 1])
              /\ h[s].pc = "an_ai" /\ h'[s].pc = "an_stored" =>
                    /\ h'[s].tried = h[s].tried
                    /\ h'[s].response = Undefined => h[s].tried = order
    ]_vars

\* The first backend failed and the second answered.
C21_Witness ==
    \E s \in Slots :
        /\ h[s].pc = "an_stored"
        /\ h[s].response # Undefined
        /\ h[s].tried = <<"amazon.nova-lite-v1:0", "openai">>

\* C22: a PATCH of a stored file, sent by hand or by accepting a suggestion,
\* stores the content of its body whatever content the file has and whatever
\* content the suggestion on display was computed against, returns the file
\* and is answered 200: the last PATCH of a file to run decides its content.
C22_PatchOverwrites ==
    [][\A s \in Slots :
          /\ h[s].pc = "idle" /\ h'[s].pc = "patched"
              /\ h'[s].id \in DOMAIN projectFiles =>
                 /\ h'[s].ret = Some(h'[s].id)
                 /\ h'[s].id \in DOMAIN projectFiles'
                 /\ projectFiles'[h'[s].id].content = h'[s].content
          /\ h[s].pc = "patched" /\ h[s].ret # Undefined /\ h'[s].pc = "idle" =>
                 h'[s].status = 200 /\ projectFiles' = projectFiles
    ]_vars

\* A file was edited after a suggestion for it was computed, and accepting
\* the suggestion has overwritten the edit.
C22_Witness ==
    \E s, t \in Slots :
        /\ h[s].kind = "patch" /\ h[s].pc = "patched" /\ h[s].ret # Undefined
        /\ h[t].kind = "apply" /\ h[t].pc = "patched" /\ h[t].ret # Undefined
        /\ h[s].id = h[t].id
        /\ h[s].id \in DOMAIN projectFiles
        /\ diffData # Undefined
        /\ h[s].content \notin {Undefined, diffData[1].original, diffData[1].improved}
        /\ projectFiles[h[s].id].content = diffData[1].improved
        /\ h[t].content = diffData[1].improved

\* The directory names of the deny-list.
DenyList ==
    { <<"n", "o", "d", "e", "_", "m", "o", "d", "u", "l", "e", "s">>, <<".", "g", "i", "t">>,
      <<"d", "i", "s", "t">>, <<"b", "u", "i", "l", "d">> }

\* The readable files of directory `dir` with a supported extension, no
\* segment of whose relative path is on the deny-list.
RECURSIVE WalkSegments(_, _, _, _)
WalkSegments(tree, dir, dirPath, i) ==
    IF i > Len(tree.dirs[dir]) THEN <<>>
    ELSE LET item == tree.dirs[dir][i]
             relativePath == relative(dirPath, item.name)
         IN  (IF item.name \in DenyList THEN <<>>
              ELSE IF item.isDirectory THEN WalkSegments(tree, item.dir, relativePath, 1)
              ELSE IF extname(item.name) \in supportedExtensions /\ item.readable
                   THEN <<relativePath>>
                   ELSE <<>>)
             \o WalkSegments(tree, dir, dirPath, i + 1)

\* C23: when collectProjectFiles returns without having reached the cap, it
\* has collected every readable file with a supported extension that has no
\* deny-listed directory name among the segments of its relative path.
C23_DenyListBySegment ==
    extension.pc = "returned" /\ Len(extension.files) < maxFiles =>
        LET all == WalkSegments(extension.tree, 1, <<>>, 1)
        IN  \A k \in 1..Len(all) :
                \E j \in 1..Len(extension.files) : extension.files[j].path = all[k]

C25_RejectedUploadChangesNothing ==
    [][\A s \in Slots :
          /\ h[s].pc = "idle" /\ h'[s].pc = "idle" /\ h'[s].status = 400
              /\ served' = served + 1 /\ (\A t \in Slots : t < s => h[t].pc # "idle") =>
                 projects' = projects /\ projectFiles' = projectFiles
          /\ h[s].pc = "idle" /\ h'[s].pc = "up_project" =>
                 /\ h'[s].id \notin DOMAIN projects => h'[s].ret = Undefined
                 /\ projects' = projects /\ projectFiles' = projectFiles
          /\ h[s].pc = "up_project" /\ h[s].ret = Undefined /\ h'[s].pc # h[s].pc =>
                 /\ h'[s].pc = "idle" /\ h'[s].status = 404
                 /\ projects' = projects /\ projectFiles' = projectFiles
    ]_vars

\* An upload to a project that is not stored, while files of another are.
C25_Witness ==
    \E s \in Slots :
        /\ h[s].kind = "upload"
        /\ h[s].pc = "up_project"
        /\ h[s].ret = Undefined
        /\ h[s].id \notin DOMAIN projects
        /\ projectFiles # <<>>

\* C26: every stored analysis is the analysis of a stored project.
C26_NoOrphanAnalyses ==
    \A a \in DOMAIN analysisResults : analysisResults[a].projectId \in DOMAIN projects

\* C27: a new file gets an identifier that no file had before; once an upload
\* has cleared its project, no file that the project stored when the upload
\* arrived is stored any more; a PATCH of an identifier that is not stored
\* returns undefined, changes no file and is answered 404.
C27_OldFileIdsStayAbsent ==
    [][/\ \A f \in DOMAIN projectFiles : f < nextFileId
       /\ nextFileId' >= nextFileId
       /\ \A f \in DOMAIN projectFiles' \ DOMAIN projectFiles : f = nextFileId
       /\ \A s \in Slots :
              /\ h[s].kind = "upload" /\ h[s].pc \in {"up_files", "up_updated"} =>
                     h[s].previous \cap DOMAIN projectFiles = {}
              /\ h[s].pc = "idle" /\ h'[s].pc = "patched"
                  /\ h'[s].id \notin DOMAIN projectFiles =>
                     h'[s].ret = Undefined /\ projectFiles' = projectFiles
              /\ h[s].pc = "patched" /\ h[s].ret = Undefined /\ h'[s].pc = "idle" =>
                     h'[s].status = 404 /\ projectFiles' = projectFiles
    ]_vars

\* A suggestion for a file is accepted after a re-upload of its project: the
\* project stores a file with the same path under a new identifier, and the
\* PATCH has found no file.
C27_Witness ==
    \E s \in Slots, g \in DOMAIN projectFiles :
        /\ h[s].kind = "apply"
        /\ h[s].pc = "patched"
        /\ h[s].ret = Undefined
        /\ diffData # Undefined
        /\ h[s].id = diffData[1].file.id
        /\ h[s].id \notin DOMAIN projectFiles
        /\ h[s].id < g
        /\ projectFiles[g].path = diffData[1].file.path
        /\ projectFiles[g].content = diffData[1].original

\* The token is that of a stored user who is pro, or whose trial has not
\* expired at `now`.
Entitled(us, token, now) ==
    /\ token # Undefined
    /\ getUser(us, token[1]) # Undefined
    /\ \/ us[token[1]].subscriptionTier = "pro"
       \/ ~trialExpired(us[token[1]], now)

\* C28: a handler of an extension AI endpoint (analyze, analyze-file,
\* generate-docs, improve) calls the reasoning service only when the bearer
\* token of its request is that of an existing user who is pro or whose trial
\* has not expired; a request without a token, with the token of no user, or
\* of an expired trial user never reaches the call.
C28_ReasoningOnlyForEntitledUser ==
    [][\A s \in Slots :
          h[s].pc # "ex_ai" /\ h'[s].pc = "ex_ai"
              => Entitled(users', h'[s].token, clock')]_vars

\* The server answered the subscription request of checkSubscription with
\* 200 for a user who is pro or whose trial has not expired.
ServerAllows ==
    /\ extension.event.type = "end"
    /\ extension.event.statusCode = 200
    /\ \/ get(extension.event.body[1], "status") = Some("pro")
       \/ get(extension.event.body[1], "trialExpired") = Some(FALSE)

\* C29: checkSubscription agrees with the server's answer to its subscription
\* request: once it has returned, it returned true when the server answered
\* for a registered user who is pro or whose trial has not expired, and false
\* only for an expired trial user or a request that failed.
C29_GateAgreesWithServer ==
    extension.pc = "returned" /\ extension.call = "subscription"
        => (extension.ret = Some(TRUE) <=> ServerAllows)

\* C30: when the response the extension waited for has ended with an error
\* status (401, 403 or 500) and a JSON body, makeHttpRequest rejects, so that
\* the command reports a failure and the body is never taken for a result.
C30_ErrorStatusRejects ==
    /\ extension.pc = "end"
    /\ extension.event.type = "end"
    /\ extension.event.statusCode \in {401, 403, 500}
    => makeHttpRequest(extension.event).settled = "rejected"
====
